---- MODULE Spec2Model ----
(***************************************************************************)
(* Model of the weather-app page component (src/app/page.tsx): the search  *)
(* workflow onSubmit, the history store kept in React state and in         *)
(* localStorage under "weather_search_history", and the presentation state *)
(* (result, error, loading, bgImageUrl).                                   *)
(*                                                                         *)
(* Text is modelled as a sequence of atoms.  An atom is one character,     *)
(* written as a one-character string, or the literal text of a template    *)
(* string, written as one string.  The empty text "" is <<>>.              *)
(* A JSON text is a sequence of tokens; JSONstringify and JSONparse work   *)
(* on tokens, so what is read back is what the parser makes of the text.   *)
(***************************************************************************)
EXTENDS Integers, Sequences, FiniteSets, TLC

VARIABLES
    mounted,        \* the mount effect (lines 125-142) has run
    city,           \* useState("")  line 56
    result,         \* useState<WeatherResponse | null>(null)  line 57
    error,          \* useState("")  line 58
    loading,        \* useState(false)  line 59
    searchHistory,  \* useState<string[]>([])  line 60
    bgImageUrl,     \* useState("")  line 70
    storage,        \* localStorage item "weather_search_history"
    flows,          \* the onSubmit invocations suspended at an await
    settled,        \* how the latest onSubmit invocation ended, once it has
    cityTime,       \* useState("")  line 69
    timers,         \* the time zones of the intervals set and not cleared
    clockDep,       \* result?.timezone at the last run of the clock effect
    cityIsText,     \* city holds a string (setCity can be given any history item)
    showHistory,    \* useState(false)  line 61
    hideTimers      \* timeouts set by onBlur that have not fired (line 369)

\* the state of the history dropdown
dropdown == <<showHistory, hideTimers>>

\* the state of the condition clock
clock == <<cityTime, timers, clockDep>>

vars == <<mounted, city, result, error, loading, searchHistory, bgImageUrl,
          storage, flows, settled, cityTime, timers, clockDep, cityIsText,
          showHistory, hideTimers>>

----------------------------------------------------------------------------
(* Bounds of the model *)

\* length of the over-long array offered as persisted content
MaxFillers == 31
\* onSubmit invocations the model lets be suspended at the same time
MaxFlows == 2
\* the clock readings (new Date()) run from 0 to MaxInstant
MaxInstant == 1
\* onBlur timeouts the model lets be pending at the same time
MaxHideTimers == 1
\* the entries of the dropdown the model lets the user pick: the first ones
MaxPick == 1

----------------------------------------------------------------------------
(* Program constants *)

MAX_STORED_HISTORY_ITEMS == 30

MsgNotFound == "City not found."
MsgWeatherUnavailable == "Weather unavailable."
MsgConnect == "Unable to connect. Please try again."

----------------------------------------------------------------------------
(* Text *)

\* String.prototype.toLowerCase on one character of the model's alphabet
LowerChar(ch) ==
    CASE ch = "P" -> "p"
      [] ch = "A" -> "a"
      [] ch = "R" -> "r"
      [] ch = "O" -> "o"
      [] ch = "B" -> "b"
      [] OTHER -> ch

toLowerCase(s) == [i \in 1..Len(s) |-> LowerChar(s[i])]

IsSpace(ch) == ch = " "

\* String.prototype.trim: drop leading and trailing white space
trim(s) ==
    LET keep == {i \in 1..Len(s) : ~IsSpace(s[i])}
    IN  IF keep = {} THEN <<>>
        ELSE LET lo == CHOOSE i \in keep : \A j \in keep : i <= j
                 hi == CHOOSE i \in keep : \A j \in keep : j <= i
             IN  SubSeq(s, lo, hi)

RECURSIVE encodeURIComponent(_)
\* encodeURIComponent: letters and digits are kept, a space becomes %20
encodeURIComponent(s) ==
    IF s = <<>> THEN <<>>
    ELSE (IF IsSpace(Head(s)) THEN <<"%", "2", "0">> ELSE <<Head(s)>>)
         \o encodeURIComponent(Tail(s))

\* slice that forgets the upper index
sliceNoCap(a, n) == a

\* Array.prototype.slice(0, n)
slice(a, n) == SubSeq(a, 1, IF Len(a) < n THEN Len(a) ELSE n)

----------------------------------------------------------------------------
(* JavaScript values held in the history array, and JSON *)

StrV(s) == [t |-> "str", s |-> s, items |-> <<>>]
NumV(s) == [t |-> "num", s |-> s, items |-> <<>>]
ArrV(a) == [t |-> "arr", s |-> <<>>, items |-> a]
ObjV    == [t |-> "obj", s |-> <<>>, items |-> <<>>]
NullV   == [t |-> "null", s |-> <<>>, items |-> <<>>]

Tok(k, s) == [k |-> k, s |-> s]
TLb == Tok("[", <<>>)
TRb == Tok("]", <<>>)
TComma == Tok(",", <<>>)
TLc == Tok("{", <<>>)
TRc == Tok("}", <<>>)

IsScalarTok(tk) == tk.k \in {"str", "num", "null"}

ScalarOf(tk) ==
    CASE tk.k = "str" -> StrV(tk.s)
      [] tk.k = "num" -> NumV(tk.s)
      [] OTHER -> NullV

\* JSON.stringify of an array of strings and numbers
JSONstringify(a) ==
    LET n == Len(a)
        tokOf(v) == IF v.t = "str" THEN Tok("str", v.s)
                    ELSE IF v.t = "num" THEN Tok("num", v.s)
                    ELSE Tok("null", <<>>)
    IN  <<TLb>>
        \o [i \in 1..(IF n = 0 THEN 0 ELSE 2 * n - 1) |->
               IF i % 2 = 1 THEN tokOf(a[(i + 1) \div 2]) ELSE TComma]
        \o <<TRb>>

\* JSON.parse on the texts of the model: a scalar, {} or an array of
\* scalars; ok = FALSE stands for the SyntaxError it throws
JSONparse(text) ==
    LET n == Len(text)
    IN  IF n = 1 /\ IsScalarTok(text[1])
          THEN [ok |-> TRUE, v |-> ScalarOf(text[1])]
        ELSE IF n = 2 /\ text[1] = TLc /\ text[2] = TRc
          THEN [ok |-> TRUE, v |-> ObjV]
        ELSE IF n = 2 /\ text[1] = TLb /\ text[2] = TRb
          THEN [ok |-> TRUE, v |-> ArrV(<<>>)]
        ELSE IF /\ n >= 3 /\ n % 2 = 1
                /\ text[1] = TLb /\ text[n] = TRb
                /\ \A i \in 2..(n - 1) :
                      IF i % 2 = 0 THEN IsScalarTok(text[i])
                                   ELSE text[i] = TComma
          THEN [ok |-> TRUE,
                v |-> ArrV([i \in 1..((n - 1) \div 2) |-> ScalarOf(text[2 * i])])]
        ELSE [ok |-> FALSE, v |-> NullV]

\* Array.isArray
IsArray(v) == v.t = "arr"

----------------------------------------------------------------------------
(* Optional values: undefined / null against a present text *)

None == [some |-> FALSE, v |-> <<>>]
Some(x) == [some |-> TRUE, v |-> x]

\* a ?? b
Coalesce(a, b) == IF a.some THEN a ELSE b

Digit(d) ==
    CASE d = 0 -> "0" [] d = 1 -> "1" [] d = 2 -> "2" [] d = 3 -> "3"
      [] d = 4 -> "4" [] d = 5 -> "5" [] d = 6 -> "6" [] d = 7 -> "7"
      [] d = 8 -> "8" [] OTHER -> "9"

\* a number below 100 written into a template string
NumText(n) == IF n < 10 THEN <<Digit(n)>> ELSE <<Digit(n \div 10), Digit(n % 10)>>

----------------------------------------------------------------------------
(* What the environment supplies: typed text, persisted content, replies *)

\* texts the user types into the city input (onChange, line 367)
Inputs ==
    { <<" ", "p", "a", " ">>,
      <<" ">> }

\* the n-th filler city: n written in binary with the letters a and b
Filler(n) == [i \in 1..6 |-> IF (n \div (2 ^ (i - 1))) % 2 = 1 THEN "b" ELSE "a"]

FillerArray == [i \in 1..MaxFillers |-> StrV(Filler(i))]

Absent == [present |-> FALSE, text |-> <<>>]
Stored(text) == [present |-> TRUE, text |-> text]

\* contents of localStorage["weather_search_history"] when the page opens
PersistedSamples ==
    { Absent,
      Stored(<<TLb, Tok("str", <<"P", "a">>)>>),              \* ["Pa   (cut off)
      Stored(<<TLc, TRc>>),                                    \* {}
      Stored(JSONstringify(<<StrV(<<"R", "o">>), StrV(<<"p", "a">>),
                             StrV(<<"P", "a">>)>>)),
      Stored(JSONstringify(<<NumV(<<"1">>), StrV(<<"P", "a">>)>>)),
      Stored(JSONstringify(FillerArray)) }

\* first match of the geocoding service (GeocodeResult, lines 15-21)
Places ==
    { [name |-> <<"P", "a">>, country |-> <<"F">>, latitude |-> 48,
       longitude |-> 2, timezone |-> Some(<<"Europe/Paris">>)],
      [name |-> <<"R", " ", "o">>, country |-> <<"I">>, latitude |-> 41,
       longitude |-> 12, timezone |-> None] }

NoPlace == [name |-> <<>>, country |-> <<>>, latitude |-> 0, longitude |-> 0,
            timezone |-> None]

\* forecast replies that carry a current object
Forecasts ==
    { [temperature_2m |-> 21, wind_speed_10m |-> 5, weather_code |-> 0,
       timezone |-> Some(<<"Europe/Rome">>)],
      [temperature_2m |-> 3, wind_speed_10m |-> 40, weather_code |-> 999,
       timezone |-> None] }

NoForecast == [temperature_2m |-> 0, wind_speed_10m |-> 0, weather_code |-> 0,
               timezone |-> None]

UrlOriginal == <<"https://upload.wikimedia.org/original.jpg">>
UrlThumb == <<"https://upload.wikimedia.org/thumb.jpg">>

\* encyclopedia summaries returned with a success status (WikipediaSummary)
Summaries ==
    { [originalimage |-> Some(UrlOriginal), thumbnail |-> Some(UrlThumb)],
      [originalimage |-> None, thumbnail |-> Some(UrlThumb)],
      [originalimage |-> None, thumbnail |-> None] }

\* ways the image lookup fails: fetch rejects, status not ok, body unreadable
ImageFailures == {"throw", "notok", "jsonthrow"}

----------------------------------------------------------------------------
(* Pure parts of the component *)

\* weatherCodeMap[code] ?? "Unknown"
weatherCodeMap(code) ==
    CASE code = 0 -> "Clear sky"
      [] code = 1 -> "Mainly clear"
      [] code = 2 -> "Partly cloudy"
      [] code = 3 -> "Overcast"
      [] code = 45 -> "Fog"
      [] code = 48 -> "Depositing rime fog"
      [] code = 51 -> "Light drizzle"
      [] code = 53 -> "Moderate drizzle"
      [] code = 55 -> "Dense drizzle"
      [] code = 61 -> "Slight rain"
      [] code = 63 -> "Moderate rain"
      [] code = 65 -> "Heavy rain"
      [] code = 71 -> "Slight snow"
      [] code = 73 -> "Moderate snow"
      [] code = 75 -> "Heavy snow"
      [] code = 80 -> "Rain showers"
      [] code = 81 -> "Moderate showers"
      [] code = 82 -> "Violent showers"
      [] code = 95 -> "Thunderstorm"
      [] OTHER -> "Unknown"

\* the history the mount effect leaves in searchHistory
LoadHistory(item, current) ==
    IF ~item.present \/ item.text = <<>> THEN current
    ELSE LET parsed == JSONparse(item.text)
         IN  IF ~parsed.ok THEN <<>>
             ELSE IF IsArray(parsed.v)
                    THEN slice(parsed.v.items, MAX_STORED_HISTORY_ITEMS)
                    ELSE current

\* item.toLowerCase() of the filter callback raises a TypeError on an item
\* that is not a string
FilterThrows(history) == \E i \in 1..Len(history) : history[i].t # "str"

\* the filter comparing without toLowerCase
FilterOthersCaseSensitive(history, cleanCity) ==
    SelectSeq(history, LAMBDA item : item.s # cleanCity)

\* searchHistory.filter((item) => item.toLowerCase() !== cleanCity.toLowerCase())
FilterOthers(history, cleanCity) ==
    SelectSeq(history, LAMBDA item : toLowerCase(item.s) # toLowerCase(cleanCity))

\* [cleanCity, ...filtered].slice(0, MAX_STORED_HISTORY_ITEMS)
NextHistory(history, cleanCity) ==
    slice(<<StrV(cleanCity)>> \o FilterOthers(history, cleanCity),
          MAX_STORED_HISTORY_ITEMS)

GeocodeUrl(cleanCity) ==
    <<"https://geocoding-api.open-meteo.com/v1/search?name=">>
    \o encodeURIComponent(cleanCity) \o <<"&count=1">>

ForecastUrl(location) ==
    <<"https://api.open-meteo.com/v1/forecast?latitude=">>
    \o NumText(location.latitude) \o <<"&longitude=">>
    \o NumText(location.longitude)
    \o <<"&current=temperature_2m,wind_speed_10m,weather_code&timezone=auto">>

WikiUrl(location) ==
    <<"https://en.wikipedia.org/api/rest_v1/page/summary/">>
    \o encodeURIComponent(location.name)

FallbackImageUrl(location) ==
    <<"https://loremflickr.com/1600/900/">>
    \o encodeURIComponent(location.name \o <<" ">> \o location.country
                          \o <<" ", "s", "k", "y", "l", "i", "n", "e">>)

\* wikiData.originalimage?.source ?? wikiData.thumbnail?.source ?? null
SummaryImage(summary) == Coalesce(summary.originalimage, Coalesce(summary.thumbnail, None))

NullResult ==
    [isNull |-> TRUE, location |-> <<>>, temperature |-> 0, windSpeed |-> 0,
     weatherDescription |-> "", timezone |-> None, imageUrl |-> None,
     fallbackImageUrl |-> <<>>]

\* nextResult, lines 256-264
NextResult(location, weather, imageUrl) ==
    [isNull |-> FALSE,
     location |-> location.name \o <<", ">> \o location.country,
     temperature |-> weather.temperature_2m,
     windSpeed |-> weather.wind_speed_10m,
     weatherDescription |-> weatherCodeMap(weather.weather_code),
     timezone |-> Coalesce(location.timezone, Coalesce(weather.timezone, None)),
     imageUrl |-> imageUrl,
     fallbackImageUrl |-> FallbackImageUrl(location)]

\* nextResult.imageUrl ?? nextResult.fallbackImageUrl ?? ""
BackgroundOf(r) == Coalesce(r.imageUrl, Some(r.fallbackImageUrl)).v

----------------------------------------------------------------------------
(* The suspended invocations of onSubmit *)

Call(kind, url) == [kind |-> kind, url |-> url]

\* an invocation that asks for the image of the typed name along with the
\* geocode request
NewFlowParallel(cityText, history) ==
    [pc |-> "geocode",
     city |-> cityText,
     cleanCity |-> trim(cityText),
     searchHistory |-> history,
     location |-> NoPlace,
     weather |-> NoForecast,
     calls |-> <<Call("geocode", GeocodeUrl(trim(cityText))),
                 Call("image", <<"https://en.wikipedia.org/api/rest_v1/page/summary/">>
                               \o encodeURIComponent(trim(cityText)))>>,
     replies |-> <<>>]

\* the closure of one invocation: its locals and the state it captured
NewFlow(cityText, history) ==
    [pc |-> "geocode",
     city |-> cityText,
     cleanCity |-> trim(cityText),
     searchHistory |-> history,
     location |-> NoPlace,
     weather |-> NoForecast,
     calls |-> <<Call("geocode", GeocodeUrl(trim(cityText)))>>,
     replies |-> <<>>]

RemoveAt(q, i) == SubSeq(q, 1, i - 1) \o SubSeq(q, i + 1, Len(q))

\* no invocation has ended since the last submission
NoSettled ==
    [some |-> FALSE, exit |-> "", city |-> <<>>, cleanCity |-> <<>>,
     location |-> NoPlace, calls |-> <<>>, replies |-> <<>>]

\* invocation f ended through exit path `exit` after its pending call was
\* answered by `reply`
Settled(f, exit, reply) ==
    [some |-> TRUE, exit |-> exit, city |-> f.city, cleanCity |-> f.cleanCity,
     location |-> f.location, calls |-> f.calls,
     replies |-> Append(f.replies, reply)]

----------------------------------------------------------------------------
(* The condition clock (lines 144-162) *)

\* the effect has not run yet
DepUnset == [k |-> "unset", v |-> <<>>]

\* the dependency result?.timezone: undefined without a result, else the
\* snapshot's timezone, which may be null
DepOf(r) ==
    IF r.isNull THEN [k |-> "undefined", v |-> <<>>]
    ELSE IF r.timezone.some THEN [k |-> "text", v |-> r.timezone.v]
    ELSE [k |-> "null", v |-> <<>>]

\* the negation of the test !result?.timezone
HasTimezone(dep) == dep.k = "text" /\ dep.v # <<>>

Instants == 0..MaxInstant

\* formatter.format(new Date()) for the formatter of time zone tz
FormatTime(tz, now) == <<"time in ">> \o tz \o <<" at ", Digit(now)>>

\* a cleanup that clears nothing
ClockCleanupLeak(ts) == ts

\* the cleanup returned by the effect: clearInterval(interval)
ClockCleanup(ts) == SubSeq(ts, 1, Len(ts) - 1)

\* the intervals left by the cleanup of the last run, if it returned one
AfterCleanup(lastDep, ts) == IF HasTimezone(lastDep) THEN ClockCleanup(ts) ELSE ts

\* the intervals after the effect has run again for result r
TimersAfterEffect(r, lastDep, ts) ==
    IF HasTimezone(DepOf(r)) THEN Append(AfterCleanup(lastDep, ts), DepOf(r).v)
    ELSE AfterCleanup(lastDep, ts)

\* cityTime after the effect has run for result r at clock reading now
CityTimeAfterEffect(r, now) ==
    IF HasTimezone(DepOf(r)) THEN FormatTime(DepOf(r).v, now) ELSE <<>>

\* React has the clock effect to run: its dependency changed
ClockPending == mounted /\ DepOf(result) # clockDep

----------------------------------------------------------------------------
(* State machine *)

Init ==
    /\ mounted = FALSE
    /\ city = <<>>
    /\ result = NullResult
    /\ error = ""
    /\ loading = FALSE
    /\ searchHistory = <<>>
    /\ bgImageUrl = <<>>
    /\ storage \in PersistedSamples
    /\ flows = <<>>
    /\ settled = NoSettled
    /\ cityTime = <<>>
    /\ timers = <<>>
    /\ clockDep = DepUnset
    /\ cityIsText = TRUE
    /\ showHistory = FALSE
    /\ hideTimers = 0

\* the effects of the first render: read the persisted history (lines
\* 131-141) and run the clock effect for the empty result (lines 144-148)
Mount ==
    /\ ~mounted
    /\ mounted' = TRUE
    /\ searchHistory' = LoadHistory(storage, searchHistory)
    /\ \E now \in Instants : cityTime' = CityTimeAfterEffect(result, now)
    /\ timers' = TimersAfterEffect(result, clockDep, timers)
    /\ clockDep' = DepOf(result)
    /\ UNCHANGED <<city, cityIsText, dropdown, result, error, loading, bgImageUrl,
                   storage, flows, settled>>

\* onChange of the city input (line 367)
TypeCity(text) ==
    /\ mounted
    /\ ~ClockPending
    /\ text # city
    /\ city' = text
    /\ cityIsText' = TRUE
    /\ UNCHANGED <<dropdown, mounted, result, error, loading, searchHistory, bgImageUrl,
                   storage, flows, settled, clock>>

\* a submit button that is never disabled
CanSubmitWhileLoading == city # <<>>

\* the form can be submitted: the input is required (line 370) and the
\* submit button is disabled while loading (line 393)
CanSubmit == city # <<>> /\ ~loading

\* onSubmit up to its first await (lines 210-220); the render of this
\* submit event runs the clock effect for the cleared result (lines 144-148)
Submit ==
    /\ mounted
    /\ ~ClockPending
    /\ CanSubmit
    /\ cityIsText
    /\ Len(flows) < MaxFlows
    /\ loading' = TRUE
    /\ error' = ""
    /\ result' = NullResult
    /\ flows' = Append(flows, NewFlow(city, searchHistory))
    /\ settled' = NoSettled
    /\ \E now \in Instants : cityTime' = CityTimeAfterEffect(NullResult, now)
    /\ timers' = TimersAfterEffect(NullResult, clockDep, timers)
    /\ clockDep' = DepOf(NullResult)
    /\ UNCHANGED <<dropdown, mounted, city, cityIsText, searchHistory, bgImageUrl, storage>>

\* onSubmit when city is not a string: city.trim() throws before any fetch
\* and the invocation ends in the same event (lines 210-217, 276-280)
SubmitThrows ==
    /\ mounted
    /\ ~ClockPending
    /\ CanSubmit
    /\ ~cityIsText
    /\ loading' = FALSE
    /\ error' = MsgConnect
    /\ result' = NullResult
    /\ settled' = [NoSettled EXCEPT !.some = TRUE, !.exit = "ConnectionFailure",
                                    !.city = city]
    /\ \E now \in Instants : cityTime' = CityTimeAfterEffect(NullResult, now)
    /\ timers' = TimersAfterEffect(NullResult, clockDep, timers)
    /\ clockDep' = DepOf(NullResult)
    /\ UNCHANGED <<dropdown, mounted, city, cityIsText, searchHistory, bgImageUrl,
                   storage, flows>>

\* onFocus of the city input (line 368)
Focus ==
    /\ mounted
    /\ ~ClockPending
    /\ showHistory' = TRUE
    /\ UNCHANGED <<mounted, city, cityIsText, result, error, loading, searchHistory,
                   bgImageUrl, storage, flows, settled, clock, hideTimers>>

\* onBlur of the city input sets a timeout (line 369)
Blur ==
    /\ mounted
    /\ ~ClockPending
    /\ hideTimers < MaxHideTimers
    /\ hideTimers' = hideTimers + 1
    /\ UNCHANGED <<mounted, city, cityIsText, result, error, loading, searchHistory,
                   bgImageUrl, storage, flows, settled, clock, showHistory>>

\* a timeout set by onBlur fires (line 369)
HideTimeout ==
    /\ hideTimers > 0
    /\ hideTimers' = hideTimers - 1
    /\ showHistory' = FALSE
    /\ UNCHANGED <<mounted, city, cityIsText, result, error, loading, searchHistory,
                   bgImageUrl, storage, flows, settled, clock>>

\* the dropdown is rendered (line 372)
DropdownShown == showHistory /\ Len(searchHistory) > 0

\* picking an entry that also submits the form
SelectHistoryAndSearch(i) ==
    /\ mounted
    /\ ~ClockPending
    /\ DropdownShown
    /\ city' = searchHistory[i].s
    /\ cityIsText' = (searchHistory[i].t = "str")
    /\ loading' = TRUE
    /\ UNCHANGED <<dropdown, mounted, result, error, searchHistory, bgImageUrl,
                   storage, flows, settled, clock>>

\* onMouseDown of entry i of the dropdown: setCity(item) (lines 377-386)
SelectHistory(i) ==
    /\ mounted
    /\ ~ClockPending
    /\ DropdownShown
    /\ city' = searchHistory[i].s
    /\ cityIsText' = (searchHistory[i].t = "str")
    /\ UNCHANGED <<dropdown, mounted, result, error, loading, searchHistory, bgImageUrl,
                   storage, flows, settled, clock>>

\* leaving without the finally block
LeaveNoFinally(i, message, exit, reply) ==
    /\ error' = message
    /\ settled' = Settled(flows[i], exit, reply)
    /\ flows' = RemoveAt(flows, i)
    /\ UNCHANGED <<dropdown, mounted, city, cityIsText, result, searchHistory, bgImageUrl,
                   storage, clock, loading>>

\* leaving after the query has been recorded all the same
LeaveRecording(i, message, exit, reply) ==
    /\ error' = message
    /\ loading' = FALSE
    /\ settled' = Settled(flows[i], exit, reply)
    /\ flows' = RemoveAt(flows, i)
    /\ searchHistory' = <<StrV(flows[i].cleanCity)>> \o flows[i].searchHistory
    /\ UNCHANGED <<dropdown, mounted, city, cityIsText, result, bgImageUrl, storage, clock>>

\* an invocation leaves through catch or return, then finally (lines 276-280)
Leave(i, message, exit, reply) ==
    /\ error' = message
    /\ loading' = FALSE
    /\ settled' = Settled(flows[i], exit, reply)
    /\ flows' = RemoveAt(flows, i)
    /\ UNCHANGED <<dropdown, mounted, city, cityIsText, result, searchHistory, bgImageUrl, storage, clock>>

\* the geocode fetch or its json() rejects (lines 218-221, 276-277)
GeocodeThrow(i) ==
    /\ flows[i].pc = "geocode"
    /\ Leave(i, MsgConnect, "ConnectionFailure", "throw")

\* no match without the early return: location.latitude then throws
GeocodeNoMatchNoReturn(i) ==
    /\ flows[i].pc = "geocode"
    /\ Leave(i, MsgConnect, "ConnectionFailure", "nomatch")

\* geocodeData?.results?.[0] is undefined (lines 222-227)
GeocodeNoMatch(i) ==
    /\ flows[i].pc = "geocode"
    /\ Leave(i, MsgNotFound, "NotFound", "nomatch")

\* a place is found; the forecast is requested (lines 222-231)
GeocodeMatch(i, place) ==
    /\ flows[i].pc = "geocode"
    /\ flows' = [flows EXCEPT ![i] =
                    [@ EXCEPT !.pc = "forecast",
                              !.location = place,
                              !.replies = Append(@, "match"),
                              !.calls = Append(@, Call("forecast", ForecastUrl(place)))]]
    /\ UNCHANGED <<dropdown, mounted, city, cityIsText, result, error, loading, searchHistory,
                   bgImageUrl, storage, settled, clock>>

\* a forecast failure swallowed like the image one
ForecastThrowSwallowed(i) ==
    /\ flows[i].pc = "forecast"
    /\ flows' = [flows EXCEPT ![i] =
                    [@ EXCEPT !.pc = "image",
                              !.replies = Append(@, "throw"),
                              !.calls = Append(@, Call("image", WikiUrl(flows[i].location)))]]
    /\ UNCHANGED <<dropdown, mounted, city, cityIsText, result, error, loading, searchHistory,
                   bgImageUrl, storage, settled, clock>>

\* the forecast fetch or its json() rejects (lines 229-232, 276-277)
ForecastThrow(i) ==
    /\ flows[i].pc = "forecast"
    /\ Leave(i, MsgConnect, "ConnectionFailure", "throw")

\* a missing current without the early return: current.temperature_2m
\* throws after the image lookup has been made
ForecastNoCurrentNoReturn(i) ==
    /\ flows[i].pc = "forecast"
    /\ flows' = [flows EXCEPT ![i] =
                    [@ EXCEPT !.pc = "image",
                              !.replies = Append(@, "nocurrent"),
                              !.calls = Append(@, Call("image", WikiUrl(flows[i].location)))]]
    /\ UNCHANGED <<dropdown, mounted, city, cityIsText, result, error, loading, searchHistory,
                   bgImageUrl, storage, settled, clock>>

\* weatherData?.current is missing (lines 233-237)
ForecastNoCurrent(i) ==
    /\ flows[i].pc = "forecast"
    /\ Leave(i, MsgWeatherUnavailable, "WeatherUnavailable", "nocurrent")

\* current conditions arrive; the image is requested (lines 233-247)
ForecastOk(i, weather) ==
    /\ flows[i].pc = "forecast"
    /\ flows' = [flows EXCEPT ![i] =
                    [@ EXCEPT !.pc = "image",
                              !.weather = weather,
                              !.replies = Append(@, "current"),
                              !.calls = Append(@, Call("image", WikiUrl(flows[i].location)))]]
    /\ UNCHANGED <<dropdown, mounted, city, cityIsText, result, error, loading, searchHistory,
                   bgImageUrl, storage, settled, clock>>

\* persisting the history the invocation captured instead of the new one
PersistHistoryStale(history, nextHistory) == Stored(JSONstringify(history))

\* localStorage.setItem("weather_search_history", JSON.stringify(nextHistory));
\* history is the captured searchHistory, which is not what is written
PersistHistory(history, nextHistory) == Stored(JSONstringify(nextHistory))

\* the rest of onSubmit once imageUrl is known (lines 256-280)
Finish(i, imageUrl, reply) ==
    LET f == flows[i]
        nextResult == NextResult(f.location, f.weather, imageUrl)
        throws == f.cleanCity # <<>> /\ FilterThrows(f.searchHistory)
        nextHistory == NextHistory(f.searchHistory, f.cleanCity)
    IN  /\ result' = nextResult
        /\ bgImageUrl' = BackgroundOf(nextResult)
        /\ IF f.cleanCity = <<>>
             THEN UNCHANGED <<searchHistory, storage, error>>
           ELSE IF throws
             THEN /\ error' = MsgConnect
                  /\ UNCHANGED <<searchHistory, storage>>
           ELSE /\ searchHistory' = nextHistory
                /\ storage' = PersistHistory(f.searchHistory, nextHistory)
                /\ UNCHANGED error
        /\ loading' = FALSE
        /\ settled' = Settled(f, IF throws THEN "ConnectionFailure" ELSE "success", reply)
        /\ flows' = RemoveAt(flows, i)
        /\ UNCHANGED <<dropdown, mounted, city, cityIsText, clock>>

\* the image lookup answers with a success status (lines 245-251)
ImageOk(i, summary) ==
    /\ flows[i].pc = "image"
    /\ Finish(i, SummaryImage(summary), "ok")

\* the image lookup fails and is swallowed (lines 244-254)
ImageFail(i, how) ==
    /\ flows[i].pc = "image"
    /\ Finish(i, None, how)

\* onError that sets the fallback whatever is displayed
BackgroundAfterErrorNoGuard(r, bg) == IF r.isNull THEN <<>> ELSE r.fallbackImageUrl

\* bgImageUrl after the onError handler of the image (lines 293-298)
BackgroundAfterError(r, bg) ==
    LET fallback == IF r.isNull THEN <<>> ELSE r.fallbackImageUrl
    IN  IF fallback # <<>> /\ bg # fallback THEN fallback ELSE bg

\* the background image fails to load (lines 288-299)
ImgError ==
    /\ mounted
    /\ bgImageUrl # <<>>
    /\ bgImageUrl' = BackgroundAfterError(result, bgImageUrl)
    /\ UNCHANGED <<dropdown, mounted, city, cityIsText, result, error, loading, searchHistory,
                   storage, flows, settled, clock>>

\* the clock effect runs after a render that changed result?.timezone
\* (lines 144-162): cleanup of the last run, then the body
ClockEffect(now) ==
    /\ ClockPending
    /\ cityTime' = CityTimeAfterEffect(result, now)
    /\ timers' = TimersAfterEffect(result, clockDep, timers)
    /\ clockDep' = DepOf(result)
    /\ UNCHANGED <<dropdown, mounted, city, cityIsText, result, error, loading, searchHistory,
                   bgImageUrl, storage, flows, settled>>

\* an interval fires updateTime (lines 158-160)
Tick(k, now) ==
    /\ cityTime' = FormatTime(timers[k], now)
    /\ UNCHANGED <<dropdown, mounted, city, cityIsText, result, error, loading, searchHistory,
                   bgImageUrl, storage, flows, settled, timers, clockDep>>

Next ==
    \/ Mount
    \/ \E now \in Instants : ClockEffect(now)
    \/ \E k \in 1..Len(timers), now \in Instants : Tick(k, now)
    \/ ImgError
    \/ \E text \in Inputs : TypeCity(text)
    \/ Submit
    \/ SubmitThrows
    \/ Focus
    \/ Blur
    \/ HideTimeout
    \/ \E i \in 1..Len(searchHistory) : i <= MaxPick /\ SelectHistory(i)
    \/ \E i \in 1..Len(flows) : GeocodeThrow(i)
    \/ \E i \in 1..Len(flows) : GeocodeNoMatch(i)
    \/ \E i \in 1..Len(flows), place \in Places : GeocodeMatch(i, place)
    \/ \E i \in 1..Len(flows) : ForecastThrow(i)
    \/ \E i \in 1..Len(flows) : ForecastNoCurrent(i)
    \/ \E i \in 1..Len(flows), weather \in Forecasts : ForecastOk(i, weather)
    \/ \E i \in 1..Len(flows), summary \in Summaries : ImageOk(i, summary)
    \/ \E i \in 1..Len(flows), how \in ImageFailures : ImageFail(i, how)

Spec == Init /\ [][Next]_vars

\* some pending call of some invocation resolves or rejects
Reply ==
    \E i \in 1..Len(flows) :
        \/ GeocodeThrow(i)
        \/ GeocodeNoMatch(i)
        \/ \E place \in Places : GeocodeMatch(i, place)
        \/ ForecastThrow(i)
        \/ ForecastNoCurrent(i)
        \/ \E weather \in Forecasts : ForecastOk(i, weather)
        \/ \E summary \in Summaries : ImageOk(i, summary)
        \/ \E how \in ImageFailures : ImageFail(i, how)

\* the initial states whose persisted array is no longer than the cap
InitShort == Init /\ storage # Stored(JSONstringify(FillerArray))

\* every issued network call eventually resolves or rejects
FairSpec == InitShort /\ [][Next]_vars /\ WF_vars(Reply)

TypeOK ==
    /\ mounted \in BOOLEAN
    /\ loading \in BOOLEAN
    /\ error \in {"", MsgNotFound, MsgWeatherUnavailable, MsgConnect}
    /\ Len(flows) <= MaxFlows

----------------------------------------------------------------------------
(* Properties *)

\* two history entries are the same city when case is ignored
SameCity(a, b) == a.t = "str" /\ b.t = "str" /\ toLowerCase(a.s) = toLowerCase(b.s)

\* the persisted value is absent, is not JSON, is not an array, or is an
\* array with an element that is not a string
Malformed(item) ==
    \/ ~item.present
    \/ ~JSONparse(item.text).ok
    \/ ~IsArray(JSONparse(item.text).v)
    \/ \E i \in 1..Len(JSONparse(item.text).v.items) :
          JSONparse(item.text).v.items[i].t # "str"

\* C1: in every reachable state the in-memory search history holds no two
\* entries that are equal under case-insensitive comparison.
C1_NoDuplicates ==
    \A i, j \in 1..Len(searchHistory) :
        i # j => ~SameCity(searchHistory[i], searchHistory[j])

\* C2: once a search for city C with non-empty trimmed form has ended
\* through the success path, the first element of the history is the
\* trimmed form of C and no other element equals it when case is ignored.
C2_RecordedFirst ==
    (settled.some /\ settled.exit = "success" /\ trim(settled.city) # <<>>) =>
        /\ Len(searchHistory) >= 1
        /\ searchHistory[1] = StrV(trim(settled.city))
        /\ \A j \in 2..Len(searchHistory) :
              ~SameCity(searchHistory[j], StrV(trim(settled.city)))

\* a search for " pa " has succeeded over the history "Ro", "pa", "Pa"
C2_Witness ==
    /\ settled.some /\ settled.exit = "success"
    /\ settled.city = <<" ", "p", "a", " ">>
    /\ searchHistory = <<StrV(<<"p", "a">>), StrV(<<"R", "o">>)>>

\* C3: the search history never holds more than 30 entries.
C3_AtMostThirty == Len(searchHistory) <= 30

\* a new city has been recorded in front of a history that was full
C3_Witness ==
    /\ settled.some /\ settled.exit = "success"
    /\ Len(searchHistory) = 30
    /\ searchHistory[1] = StrV(<<"p", "a">>)
    /\ searchHistory[2] = StrV(Filler(1))

\* C4: when the persisted history is absent or malformed, the history after
\* the startup load is the empty sequence.
C4_MalformedLoadsEmpty ==
    (mounted /\ Malformed(storage)) => searchHistory = <<>>

\* the kinds of the requests in a call log, in the order issued
Kinds(calls) == [k \in 1..Len(calls) |-> calls[k].kind]

\* reply r is among the replies invocation f has received
Got(f, r) == \E k \in 1..Len(f.replies) : f.replies[k] = r

\* C5: in every state with no workflow in flight, a displayed error message
\* is one of the three user-facing messages and no result is displayed.
C5_ErrorExcludesResult ==
    (flows = <<>> /\ error # "") =>
        /\ result = NullResult
        /\ error \in {MsgNotFound, MsgWeatherUnavailable, MsgConnect}

\* C6: no invocation goes on after a geocode reply without a match; it ends
\* with "City not found.", no result, and only the geocode request issued.
C6_NotFound ==
    /\ \A i \in 1..Len(flows) : ~Got(flows[i], "nomatch")
    /\ (settled.some /\ Got(settled, "nomatch")) =>
          /\ error = MsgNotFound
          /\ result = NullResult
          /\ Kinds(settled.calls) = <<"geocode">>

\* a submission has ended on a geocode reply without a match
C6_Witness ==
    /\ settled.some /\ settled.replies = <<"nomatch">>
    /\ flows = <<>> /\ ~loading

\* C7: no invocation goes on after a forecast reply without current
\* conditions; it ends with "Weather unavailable.", no result, and no image
\* request issued.
C7_WeatherUnavailable ==
    /\ \A i \in 1..Len(flows) : ~Got(flows[i], "nocurrent")
    /\ (settled.some /\ Got(settled, "nocurrent")) =>
          /\ error = MsgWeatherUnavailable
          /\ result = NullResult
          /\ Kinds(settled.calls) = <<"geocode", "forecast">>

\* a submission has ended on a forecast reply without current conditions
C7_Witness ==
    /\ settled.some /\ settled.replies = <<"match", "nocurrent">>
    /\ flows = <<>> /\ ~loading

\* C8: after geocode and forecast succeeded and the image lookup failed, no
\* error message is shown and the snapshot has a null imageUrl and the
\* non-empty fallback URL built from the place name and country.
C8_ImageFailureSwallowed ==
    (settled.some /\ Len(settled.replies) = 3 /\ settled.replies[3] \in ImageFailures) =>
        /\ error = ""
        /\ result # NullResult
        /\ result.imageUrl = None
        /\ result.fallbackImageUrl # <<>>
        /\ result.fallbackImageUrl = FallbackImageUrl(settled.location)

\* C9: a thrown error in the geocode or the forecast call ends the
\* invocation: no later request is issued, no result is shown, and the
\* message is "Unable to connect. Please try again.".
C9_ConnectionFailure ==
    /\ \A i \in 1..Len(flows) : ~Got(flows[i], "throw")
    /\ (settled.some /\ Len(settled.replies) <= 2 /\ Got(settled, "throw")) =>
          /\ error = MsgConnect
          /\ result = NullResult
          /\ Len(settled.calls) = Len(settled.replies)
          /\ Kinds(settled.calls) = SubSeq(<<"geocode", "forecast">>, 1, Len(settled.replies))

\* a submission has ended on a forecast call that threw
C9_Witness ==
    /\ settled.some /\ settled.replies = <<"match", "throw">>
    /\ flows = <<>> /\ ~loading

\* C10: loading is true in every state in which a submission has a call
\* pending.
C10_LoadingWhilePending == flows # <<>> => loading

\* a submission is waiting for the image lookup
C10_Witness == Len(flows) = 1 /\ flows[1].pc = "image" /\ loading

\* the displayed snapshot carries a non-empty timezone
SnapshotHasTimezone == ~result.isNull /\ result.timezone.some /\ result.timezone.v # <<>>

\* C14: at most one clock interval is active; an active interval is that of
\* the current snapshot's non-empty timezone; while the timezone is unset no
\* interval is active and the displayed time is empty.
C14_ClockFollowsTimezone ==
    /\ Len(timers) <= 1
    /\ \A k \in 1..Len(timers) :
          SnapshotHasTimezone /\ timers[k] = result.timezone.v
    /\ ~SnapshotHasTimezone => (timers = <<>> /\ cityTime = <<>>)

\* the clock of a snapshot whose timezone came from the forecast has ticked
C14_Witness ==
    /\ timers = << <<"Europe/Rome">> >>
    /\ cityTime = FormatTime(<<"Europe/Rome">>, 1)
    /\ flows = <<>>

\* C15: a search that produces a snapshot displays its live image if there
\* is one, else its fallback; while that snapshot is kept the display only
\* ever changes from another URL to the snapshot's fallback, so once the
\* fallback is displayed a load failure changes nothing.
C15_FallbackSwapOnce ==
    /\ [][(result.isNull /\ ~result'.isNull) =>
             bgImageUrl' = IF result'.imageUrl.some THEN result'.imageUrl.v
                           ELSE result'.fallbackImageUrl]_vars
    /\ [][(result' = result /\ bgImageUrl' # bgImageUrl) =>
             /\ ~result.isNull
             /\ bgImageUrl # result.fallbackImageUrl
             /\ bgImageUrl' = result.fallbackImageUrl]_vars
    /\ [](~result.isNull =>
             \/ bgImageUrl = result.fallbackImageUrl
             \/ result.imageUrl.some /\ bgImageUrl = result.imageUrl.v)

\* the live image of the snapshot failed to load and the fallback is shown
C15_Witness ==
    /\ ~result.isNull
    /\ result.imageUrl = Some(UrlOriginal)
    /\ bgImageUrl = result.fallbackImageUrl

\* the order in which one submission issues its requests
CallOrder == <<"geocode", "forecast", "image">>

\* C11: with every call answered, loading eventually becomes false after it
\* was set; loading is cleared only by the end of an invocation, and the end
\* of every invocation clears it.
C11_LoadingCleared ==
    /\ loading ~> ~loading
    /\ [][(loading /\ ~loading') => Len(flows') = Len(flows) - 1]_vars
    /\ [][Len(flows') < Len(flows) => (loading /\ ~loading')]_vars

\* a submission has ended through the success path with loading cleared
C11_Witness ==
    /\ settled.some /\ settled.exit = "success"
    /\ Len(settled.replies) = 3
    /\ ~loading /\ flows = <<>>

\* C12: an invocation has one request pending at a time, issued in the order
\* geocode, forecast, image, each after the reply to the one before.
C12_CallsInOrder ==
    /\ \A i \in 1..Len(flows) :
          /\ Len(flows[i].calls) = Len(flows[i].replies) + 1
          /\ Kinds(flows[i].calls) = SubSeq(CallOrder, 1, Len(flows[i].calls))
          /\ flows[i].replies = SubSeq(<<"match", "current">>, 1, Len(flows[i].replies))
    /\ settled.some =>
          /\ Len(settled.calls) = Len(settled.replies)
          /\ Kinds(settled.calls) = SubSeq(CallOrder, 1, Len(settled.calls))

\* an invocation waits for the image lookup, its third request
C12_Witness ==
    /\ Len(flows) = 1
    /\ Kinds(flows[1].calls) = CallOrder
    /\ flows[1].replies = <<"match", "current">>

\* the form can be submitted now
SubmitEnabled == ENABLED (Submit \/ SubmitThrows)

\* C13 as stated: while a search is in flight the user can submit again.
C13_CanResubmit ==
    (flows # <<>> /\ Len(flows) < MaxFlows /\ city # <<>> /\ ~ClockPending) => SubmitEnabled

\* C13 as amended: while a search is in flight the form cannot be submitted,
\* and every invocation that ends is the only one in flight, so no reply of
\* an earlier search arrives after a later one was submitted.
C13_NoLateOverwrite ==
    /\ [](flows # <<>> => ~SubmitEnabled)
    /\ [][Len(flows') < Len(flows) => (Len(flows) = 1 /\ flows' = <<>>)]_vars

\* the user has typed another city while the only search is in flight
C13_Witness ==
    /\ Len(flows) = 1
    /\ city # <<>> /\ city # flows[1].city
    /\ ~SubmitEnabled

\* C16: every geocode request carries the trimmed input, which is not empty.
C16_QueryTrimmedNonEmpty ==
    /\ \A i \in 1..Len(flows) :
          /\ trim(flows[i].city) # <<>>
          /\ flows[i].calls[1].url = GeocodeUrl(trim(flows[i].city))
    /\ (settled.some /\ Len(settled.calls) > 0) =>
          /\ trim(settled.city) # <<>>
          /\ settled.calls[1].url = GeocodeUrl(trim(settled.city))

\* C17: after a search with a non-empty trimmed query has ended through the
\* success path, the persisted text parses to the in-memory history.
C17_PersistedEqualsHistory ==
    (settled.some /\ settled.exit = "success" /\ settled.cleanCity # <<>>) =>
        /\ storage.present
        /\ JSONparse(storage.text).ok
        /\ IsArray(JSONparse(storage.text).v)
        /\ JSONparse(storage.text).v.items = searchHistory

\* a query was recorded over the loaded history and both were rewritten
C17_Witness ==
    /\ settled.some /\ settled.exit = "success"
    /\ searchHistory = <<StrV(<<"p", "a">>), StrV(<<"R", "o">>)>>
    /\ storage = Stored(JSONstringify(searchHistory))

\* C18: picking an entry of the dropdown sets city to that entry and leaves
\* result, error, loading, the history, the storage, the background and
\* the invocations in flight as they are.
C18_SelectOnlyFillsInput ==
    [][\A i \in 1..Len(searchHistory) :
          SelectHistory(i) =>
              /\ city' = searchHistory[i].s
              /\ UNCHANGED <<result, error, loading, searchHistory, storage, flows,
                             settled, bgImageUrl>>]_vars

\* "Ro", which is never typed, was picked from the dropdown
C18_Witness ==
    /\ city = <<"R", "o">>
    /\ showHistory
    /\ flows = <<>> /\ settled = NoSettled /\ result = NullResult

\* C19: the history and the persisted value change only when a search with
\* a non-empty trimmed query ends through the success path; a search that
\* ends otherwise leaves both unchanged.
C19_OnlySuccessRecords ==
    /\ [][(mounted /\ (searchHistory' # searchHistory \/ storage' # storage)) =>
             /\ ~settled.some /\ settled'.some
             /\ settled'.exit = "success"
             /\ settled'.cleanCity # <<>>]_vars
    /\ [][(~settled.some /\ settled'.some /\ settled'.exit # "success") =>
             UNCHANGED <<searchHistory, storage>>]_vars

\* a search has failed on the forecast and the loaded history is still there
C19_Witness ==
    /\ settled.some /\ settled.exit = "WeatherUnavailable"
    /\ searchHistory = <<StrV(<<"R", "o">>), StrV(<<"p", "a">>), StrV(<<"P", "a">>)>>
    /\ storage = Stored(JSONstringify(searchHistory))

\* C20: while loading is true the form cannot be submitted, and at most one
\* invocation is in flight.
C20_OneWorkflow ==
    /\ loading => ~SubmitEnabled
    /\ Len(flows) <= 1

\* a search waits for the forecast while the input holds a city to submit
C20_Witness ==
    /\ Len(flows) = 1 /\ flows[1].pc = "forecast"
    /\ loading
    /\ city # <<>> /\ cityIsText

====
